---- MODULE Spec2Model ----
(***************************************************************************)
(* A model of match.py of qb-reconcile: the reconciliation run of main()   *)
(* (configuration, the two ledger loads, find_mismatches, the two reports),*)
(* the amount normalisation _standardize_amount, and match_transactions.   *)
(*                                                                         *)
(* Amounts are integers in thousandths of a currency unit ("mills"), so    *)
(* 10.004 is 10004 and a value rounded to cents is a multiple of 10.       *)
(* Timestamps are integers in ticks, TicksPerDay ticks to the calendar day,*)
(* so a timestamp that is no multiple of TicksPerDay has a time of day.    *)
(***************************************************************************)
EXTENDS Integers, Sequences, FiniteSets, TLC

\* ------------------------------------------------------------------ bounds

\* Rows of the two ledger files of one run, together.
MaxRows == 3

\* Resolution of a timestamp within one calendar day.
TicksPerDay == 2

\* ---------------------------------------------------------------- helpers

Abs(n) == IF n < 0 THEN -n ELSE n

SetMin(S) == CHOOSE x \in S : \A y \in S : x <= y

RECURSIVE SortedSeq(_)
SortedSeq(S) ==
    IF S = {} THEN << >>
    ELSE LET m == SetMin(S) IN << m >> \o SortedSeq(S \ {m})

\* ------------------------------------------------------- _standardize_date

\* A date cell is the text of one CSV cell: its form, and the calendar day
\* and the time of day (in ticks) that it writes.
RawDates ==
    { [form |-> "mdy",     day |-> 0, tick |-> 0],
      [form |-> "iso",     day |-> 3, tick |-> 0],
      [form |-> "isotime", day |-> 3, tick |-> 1],
      [form |-> "mdy",     day |-> 4, tick |-> 0] }

\* pd.to_datetime(format='%m/%d/%Y') takes a text of that form only, and
\* yields midnight of the day; any other text goes to the general parser,
\* which keeps a written time of day.
StandardizeDate(date_str) ==
    IF date_str.form = "mdy"
    THEN date_str.day * TicksPerDay
    ELSE date_str.day * TicksPerDay + date_str.tick

\* ----------------------------------------------------- _standardize_amount

\* A numeric cell: na is a blank cell (pandas NaN), v its value in mills.
Cell(v) == [na |-> FALSE, v |-> v]
Blank == [na |-> TRUE, v |-> 0]

NotNa(cell) == ~cell.na

\* float(str(cell).replace(',', ''))
ParseFloat(cell) == cell.v

\* The flag with False in place of True for a section that does not set it.
ChargesAreNegativeDefaultFalse(file_config) ==
    file_config.charges_are_negative = "true"

\* file_config.get('charges_are_negative', True), then its truth value
ChargesAreNegative(file_config) ==
    IF file_config.charges_are_negative = "absent"
    THEN TRUE
    ELSE file_config.charges_are_negative = "true"

\* The canonical amount of a row; "" is a key that the section does not set.
StandardizeAmount(row, file_config) ==
    IF file_config.amount_column /= ""
    THEN LET amount == ParseFloat(row[file_config.amount_column])
         IN  IF ChargesAreNegative(file_config) THEN -amount ELSE amount
    ELSE IF file_config.charge_amount /= "" /\ NotNa(row[file_config.charge_amount])
         THEN ParseFloat(row[file_config.charge_amount])
         ELSE IF file_config.payment_amount /= ""
                 /\ NotNa(row[file_config.payment_amount])
              THEN -ParseFloat(row[file_config.payment_amount])
              ELSE 0

\* ------------------------------------------------- _load_and_standardize_file

\* The header of the ledger files of the runs modelled here.
Columns == {"Date", "Description", "Amount"}

\* A description cell that is blank in the file (pandas NaN).
NullDesc == "<NaN>"

\* df[desc_col].fillna('')
FillNa(cell) == IF cell = NullDesc THEN "" ELSE cell

\* The KeyError checks of the amount columns against the header.
SchemaOk(file_config) ==
    /\ file_config.amount_column /= "" => file_config.amount_column \in Columns
    /\ file_config.charge_amount /= "" => file_config.charge_amount \in Columns
    /\ file_config.payment_amount /= "" => file_config.payment_amount \in Columns

\* The data frame: one canonical record per row, in file order.
LoadAndStandardize(rows, file_config) ==
    [i \in DOMAIN rows |->
        [date        |-> StandardizeDate(rows[i].Date),
         description |-> FillNa(rows[i].Description),
         amount      |-> StandardizeAmount(rows[i], file_config)]]

\* ---------------------------------------------------------- find_mismatches

\* The rounding left out.
Round2Skipped(m) == m

\* Series.round(2): to the nearest cent, an exact half to the even cent.
Round2(m) ==
    LET a  == Abs(m)
        q  == a \div 10
        r  == a % 10
        up == r > 5 \/ (r = 5 /\ q % 2 = 1)
        c  == 10 * (IF up THEN q + 1 ELSE q)
    IN  IF m < 0 THEN -c ELSE c

\* df['amount'] = df['amount'].round(2)
RoundAmounts(df) ==
    [i \in DOMAIN df |-> [df[i] EXCEPT !.amount = Round2(df[i].amount)]]

\* df.groupby('amount').agg({'date': list, 'description': list}): for every
\* amount of the frame, the dates and the descriptions of its rows, in row order.
GroupByAmount(df) ==
    [k \in {df[i].amount : i \in DOMAIN df} |->
        LET Has(r) == r.amount = k
            rows   == SelectSeq(df, Has)
        IN  [date        |-> [i \in DOMAIN rows |-> rows[i].date],
             description |-> [i \in DOMAIN rows |-> rows[i].description]]]

\* counts['count'] = counts['description'].str.len(), and fillna(0) after the merge
CountOf(counts, k) ==
    IF k \in DOMAIN counts THEN Len(counts[k].description) ELSE 0

\* [(d, desc, 1) for d, desc in zip(dates, descriptions)], [] for an absent side
InfoOf(counts, k) ==
    IF k \in DOMAIN counts
    THEN [i \in DOMAIN counts[k].date |->
             << counts[k].date[i], counts[k].description[i], 1 >>]
    ELSE << >>

\* The keys of an inner join: how='inner' in place of how='outer'.
MergeKeysInner(counts1, counts2) == DOMAIN counts1 \cap DOMAIN counts2

\* The keys of pd.merge(..., how='outer')
MergeKeys(counts1, counts2) == DOMAIN counts1 \cup DOMAIN counts2

\* The merged table, one row for every key, in ascending order of the amount;
\* idx is the row's index label.
Merge(counts1, counts2) ==
    LET keys == SortedSeq(MergeKeys(counts1, counts2))
    IN  [i \in DOMAIN keys |->
            [idx    |-> i - 1,
             amount |-> keys[i],
             count1 |-> CountOf(counts1, keys[i]),
             count2 |-> CountOf(counts2, keys[i]),
             info1  |-> InfoOf(counts1, keys[i]),
             info2  |-> InfoOf(counts2, keys[i])]]

\* merged[merged['count1'] > merged['count2']]
Mismatches1(merged) ==
    LET More(row) == row.count1 > row.count2 IN SelectSeq(merged, More)

\* The second table with >= in place of >.
Mismatches2OrEqual(merged) ==
    LET More(row) == row.count2 >= row.count1 IN SelectSeq(merged, More)

\* merged[merged['count2'] > merged['count1']]
Mismatches2(merged) ==
    LET More(row) == row.count2 > row.count1 IN SelectSeq(merged, More)

\* The two tables that find_mismatches returns for two rounded frames.
Classify(df1, df2) ==
    LET merged == Merge(GroupByAmount(df1), GroupByAmount(df2))
    IN  [m1 |-> Mismatches1(merged), m2 |-> Mismatches2(merged)]

\* ------------------------------------------------------- the report of main

\* The fixed distance of find_matches, in days.
ToleranceDays == 3

\* timedelta.days: the whole days of a difference, rounded down.
TimedeltaDays(delta) == delta \div TicksPerDay

\* find_matches with < in place of <= in the test of the close dates.
FindMatchesStrict(date1, dates_list) ==
    \E i \in DOMAIN dates_list :
        \/ date1 = dates_list[i][1]
        \/ Abs(TimedeltaDays(date1 - dates_list[i][1])) < ToleranceDays

\* find_matches: an equal date, or else a date whose .days distance is small.
FindMatches(date1, dates_list) ==
    LET exact_matches ==
            {i \in DOMAIN dates_list : date1 = dates_list[i][1]}
        close_matches ==
            {i \in DOMAIN dates_list :
                Abs(TimedeltaDays(date1 - dates_list[i][1])) <= ToleranceDays}
    IN  IF exact_matches /= {} THEN TRUE
        ELSE IF close_matches /= {} THEN TRUE
        ELSE FALSE

\* date1.strftime('%Y-%m-%d'): the calendar day, without the time of day.
Strftime(date1) == date1 \div TicksPerDay

\* The printed line of an occurrence.
Line(date1, desc1) == [day |-> Strftime(date1), desc |-> desc1, note |-> "(no match)"]

\* format_date_info: no line (<< >>) for a date that has a match.
FormatDateInfo(date1, desc1, dates_list) ==
    IF FindMatches(date1, dates_list) THEN << >> ELSE << Line(date1, desc1) >>

\* The occurrences that the loop of print_mismatches walks for a row, and
\* the list it checks them against.
Dates1(row) == row.info1
Dates2(row) == row.info2

RECURSIVE MatchInfo(_, _)
MatchInfo(dates1, dates2) ==
    IF dates1 = << >> THEN << >>
    ELSE FormatDateInfo(Head(dates1)[1], Head(dates1)[2], dates2)
            \o MatchInfo(Tail(dates1), dates2)

\* print_mismatches: the printed blocks, one for every row with a line.
RECURSIVE PrintMismatches(_)
PrintMismatches(df) ==
    IF df = << >> THEN << >>
    ELSE LET row        == Head(df)
             match_info == MatchInfo(Dates1(row), Dates2(row))
         IN  (IF match_info /= << >>
              THEN << [idx        |-> row.idx,
                       amount     |-> row.amount,
                       qb_count   |-> row.count2,
                       bank_count |-> row.count1,
                       lines      |-> match_info] >>
              ELSE << >>) \o PrintMismatches(Tail(df))

\* ---------------------------------------------------------- the run of main

\* The rows of the ledger files: a charge that is written with a description
\* on any of the dates, and rows without description, of two other amounts,
\* on the dates of the month/day/year form.
RawAmounts == {10001, 10004, 10006}

RawRows ==
    [Date : RawDates, Description : {"Coffee Shop"}, Amount : {Cell(10004)}]
    \cup [Date        : {d \in RawDates : d.form = "mdy"},
          Description : {NullDesc},
          Amount      : {Cell(v) : v \in RawAmounts \ {10004}}]

\* A ledger section of the configuration; "" is a key that is not set.
SingleAmount(column, flag) ==
    [amount_column        |-> column,
     charges_are_negative |-> flag,
     charge_amount        |-> "",
     payment_amount       |-> ""]

Sections ==
    { SingleAmount("Amount", "absent"),
      SingleAmount("Amount", "false"),
      SingleAmount("Amt", "absent") }

\* The configuration file: absent, no YAML, the YAML null document, or a
\* mapping with some of the two ledger sections.
ConfigFiles ==
    { [kind |-> k, doc |-> << >>] : k \in {"missing", "invalid", "null"} }
    \cup { [kind |-> "mapping", doc |-> d] :
             d \in UNION { [S -> Sections] : S \in SUBSET {"bank", "qb"} } }

VARIABLES
    pc,           \* the position of main
    cfgFile,      \* the configuration file at args.config
    config,       \* matcher.config
    file1,        \* the rows of the bank file, once read
    file2,        \* the rows of the QuickBooks file, once read
    df1,          \* the bank frame: date, description, amount
    df2,          \* the QuickBooks frame
    missing_file1,  \* the first table of find_mismatches
    missing_file2,  \* the second table of find_mismatches
    report,       \* the printed sections, in order
    log,          \* the reads of ledger files, in order
    err           \* the exception that ended the run, "" for none

mainVars == << pc, cfgFile, config, file1, file2, df1, df2,
               missing_file1, missing_file2, report, log, err >>

\* One call of _standardize_amount.
VARIABLES
    apc,              \* the position of the call
    arg_row,          \* the argument row
    arg_file_config,  \* the argument file_config
    ret_amount        \* the value returned

amountVars == << apc, arg_row, arg_file_config, ret_amount >>

\* One call of match_transactions.
VARIABLES
    mpc,                \* the position of the call
    bank_transactions,
    qb_transactions,
    qb_idx,             \* the QuickBooks transactions that the first loop has handled
    matches,
    mismatches,
    bank_match_counts

matchVars == << mpc, bank_transactions, qb_transactions, qb_idx,
                matches, mismatches, bank_match_counts >>

vars == << mainVars, amountVars, matchVars >>

\* No run of main, no call of _standardize_amount, no call of match_transactions.
MainIdle ==
    /\ pc = "idle"
    /\ cfgFile = [kind |-> "missing", doc |-> << >>]
    /\ config = [kind |-> "unset", doc |-> << >>]
    /\ file1 = << >>
    /\ file2 = << >>
    /\ df1 = << >>
    /\ df2 = << >>
    /\ missing_file1 = << >>
    /\ missing_file2 = << >>
    /\ report = << >>
    /\ log = << >>
    /\ err = ""

AmountIdle ==
    /\ apc = "idle"
    /\ arg_row = << >>
    /\ arg_file_config = << >>
    /\ ret_amount = 0

MatchIdle ==
    /\ mpc = "idle"
    /\ bank_transactions = << >>
    /\ qb_transactions = << >>
    /\ qb_idx = 0
    /\ matches = << >>
    /\ mismatches = << >>
    /\ bank_match_counts = << >>

Init ==
    /\ pc = "start"
    /\ cfgFile \in ConfigFiles
    /\ config = [kind |-> "unset", doc |-> << >>]
    /\ file1 = << >>
    /\ file2 = << >>
    /\ df1 = << >>
    /\ df2 = << >>
    /\ missing_file1 = << >>
    /\ missing_file2 = << >>
    /\ report = << >>
    /\ log = << >>
    /\ err = ""
    /\ AmountIdle
    /\ MatchIdle

\* An uncaught exception ends the run.
Raise(e) ==
    /\ err' = e
    /\ pc' = "aborted"

\* matcher = TransactionMatcher(args.config)
Construct ==
    /\ pc = "start"
    /\ IF cfgFile.kind = "missing"
       THEN Raise("FileNotFoundError") /\ UNCHANGED config
       ELSE IF cfgFile.kind = "invalid"
       THEN Raise("YAMLError") /\ UNCHANGED config
       ELSE /\ config' = cfgFile
            /\ pc' = "load_bank"
            /\ UNCHANGED err
    /\ UNCHANGED << cfgFile, file1, file2, df1, df2,
                    missing_file1, missing_file2, report, log >>
    /\ UNCHANGED << amountVars, matchVars >>

\* find_mismatches, line 109: self.config['bank'], then the load of the bank file.
LoadBank ==
    /\ pc = "load_bank"
    /\ IF config.kind /= "mapping"
       THEN Raise("TypeError") /\ UNCHANGED << file1, df1, log >>
       ELSE IF "bank" \notin DOMAIN config.doc
       THEN Raise("KeyError: bank") /\ UNCHANGED << file1, df1, log >>
       ELSE IF ~SchemaOk(config.doc["bank"])
       THEN /\ Raise("KeyError: column")
            /\ log' = log \o << "bank", "bank" >>
            /\ UNCHANGED << file1, df1 >>
       ELSE \E n \in 0..MaxRows : \E rows \in [1..n -> RawRows] :
            /\ file1' = rows
            /\ df1' = LoadAndStandardize(rows, config.doc["bank"])
            /\ log' = Append(log, "bank")
            /\ pc' = "load_qb"
            /\ UNCHANGED err
    /\ UNCHANGED << cfgFile, config, file2, df2,
                    missing_file1, missing_file2, report >>
    /\ UNCHANGED << amountVars, matchVars >>

\* find_mismatches, lines 110 to 148: self.config['qb'], the load of the
\* QuickBooks file, the rounding, the grouping, the merge and the two tables.
LoadQBAndClassify ==
    /\ pc = "load_qb"
    /\ IF "qb" \notin DOMAIN config.doc
       THEN /\ Raise("KeyError: qb")
            /\ UNCHANGED << file2, df1, df2, missing_file1, missing_file2, log >>
       ELSE IF ~SchemaOk(config.doc["qb"])
       THEN /\ Raise("KeyError: column")
            /\ log' = log \o << "qb", "qb" >>
            /\ UNCHANGED << file2, df1, df2, missing_file1, missing_file2 >>
       ELSE \E n \in 0..(MaxRows - Len(file1)) : \E rows \in [1..n -> RawRows] :
            LET r1 == RoundAmounts(df1)
                r2 == RoundAmounts(LoadAndStandardize(rows, config.doc["qb"]))
                m  == Classify(r1, r2)
            IN  /\ file2' = rows
                /\ df1' = r1
                /\ df2' = r2
                /\ missing_file1' = m.m1
                /\ missing_file2' = m.m2
                /\ log' = Append(log, "qb")
                /\ pc' = "print_bank"
                /\ UNCHANGED err
    /\ UNCHANGED << cfgFile, config, file1, report >>
    /\ UNCHANGED << amountVars, matchVars >>

\* print_mismatches(missing_file1, "Transactions only in bank file", ...)
PrintBank ==
    /\ pc = "print_bank"
    /\ report' = Append(report, [title |-> "Transactions only in bank file",
                                 blocks |-> PrintMismatches(missing_file1)])
    /\ pc' = "print_qb"
    /\ UNCHANGED << cfgFile, config, file1, file2, df1, df2,
                    missing_file1, missing_file2, log, err >>
    /\ UNCHANGED << amountVars, matchVars >>

\* print_mismatches(missing_file2, "Transactions only in QuickBooks file", ...)
PrintQB ==
    /\ pc = "print_qb"
    /\ report' = Append(report, [title |-> "Transactions only in QuickBooks file",
                                 blocks |-> PrintMismatches(missing_file2)])
    /\ pc' = "done"
    /\ UNCHANGED << cfgFile, config, file1, file2, df1, df2,
                    missing_file1, missing_file2, log, err >>
    /\ UNCHANGED << amountVars, matchVars >>

Next == Construct \/ LoadBank \/ LoadQBAndClassify \/ PrintBank \/ PrintQB

Spec == Init /\ [][Next]_vars

\* ------------------------------------------------------------ the properties

\* find_mismatches has returned.
Classified == pc \in {"print_bank", "print_qb", "done"}

\* The number of rows of a frame with amount k, and these rows as occurrences.
CountIn(df, k) == Cardinality({i \in DOMAIN df : df[i].amount = k})

Occurrences(df, k) ==
    LET Has(r) == r.amount = k
        rows   == SelectSeq(df, Has)
    IN  [i \in DOMAIN rows |-> << rows[i].date, rows[i].description, 1 >>]

AmountsOf(df) == {df[i].amount : i \in DOMAIN df}

RecordsOf(table, k) == {i \in DOMAIN table : table[i].amount = k}

\* C1: after find_mismatches, an amount has a record if and only if its count
\* in the bank frame differs from its count in the QuickBooks frame (an amount
\* absent from a frame counting 0 there); it then has exactly one record, in
\* one of the two tables, with the two counts and the two occurrence lists;
\* an amount with equal counts has none, whatever its dates and descriptions.
C1_OuterJoin ==
    Classified =>
        \A k \in AmountsOf(df1) \cup AmountsOf(df2)
                 \cup AmountsOf(missing_file1) \cup AmountsOf(missing_file2) :
            LET c1 == CountIn(df1, k)
                c2 == CountIn(df2, k)
                n1 == Cardinality(RecordsOf(missing_file1, k))
                n2 == Cardinality(RecordsOf(missing_file2, k))
            IN  /\ (c1 /= c2) <=> (n1 + n2 >= 1)
                /\ n1 + n2 <= 1
                /\ n1 = 1 => c1 > c2
                /\ n2 = 1 => c2 > c1
                /\ \A t \in {missing_file1, missing_file2} :
                     \A i \in RecordsOf(t, k) :
                        /\ t[i].count1 = c1
                        /\ t[i].count2 = c2
                        /\ t[i].info1 = Occurrences(df1, k)
                        /\ t[i].info2 = Occurrences(df2, k)

\* A record for an amount that one ledger lacks, beside an amount with one
\* occurrence in each ledger, of different dates and descriptions, and no record.
C1_Witness ==
    /\ pc = "done"
    /\ \E k \in AmountsOf(df2) \ AmountsOf(df1) :
          RecordsOf(missing_file2, k) /= {}
    /\ \E i \in DOMAIN df1, j \in DOMAIN df2 :
          /\ df1[i].amount = df2[j].amount
          /\ CountIn(df1, df1[i].amount) = 1
          /\ CountIn(df2, df1[i].amount) = 1
          /\ df1[i].date /= df2[j].date
          /\ df1[i].description /= df2[j].description
          /\ RecordsOf(missing_file1, df1[i].amount) = {}
          /\ RecordsOf(missing_file2, df1[i].amount) = {}

\* The amounts of a table with the count of the first and of the second ledger.
Summary(table) ==
    {<< table[i].amount, table[i].count1, table[i].count2 >> : i \in DOMAIN table}

SummarySwapped(table) ==
    {<< table[i].amount, table[i].count2, table[i].count1 >> : i \in DOMAIN table}

\* C5: find_mismatches on the two frames in the other order returns the two
\* tables in the other order: the same amounts, each with the same count for
\* the bank frame and the same count for the QuickBooks frame.
C5_Symmetry ==
    Classified =>
        LET swapped == Classify(df2, df1)
        IN  /\ Summary(missing_file1) = SummarySwapped(swapped.m2)
            /\ Summary(missing_file2) = SummarySwapped(swapped.m1)

\* Both tables have a record, so the exchange moves a record each way.
C5_Witness ==
    /\ pc = "done"
    /\ missing_file1 /= << >>
    /\ missing_file2 /= << >>

\* The lines that section s of the report prints for amount k.
BlockLines(s, k) ==
    LET Is(b) == b.amount = k
        bs    == SelectSeq(report[s].blocks, Is)
    IN  IF bs = << >> THEN << >> ELSE bs[1].lines

\* The table that section s of the report was printed from.
TableOf(s) == IF s = 1 THEN missing_file1 ELSE missing_file2

\* The lines of the occurrences of a list that satisfy no Near(date, o) for
\* any o of the other list.
LinesFarFrom(occs, others, Near(_, _)) ==
    LET Far(o) == ~\E j \in DOMAIN others : Near(o[1], others[j][1])
        far    == SelectSeq(occs, Far)
    IN  [i \in DOMAIN far |-> Line(far[i][1], far[i][2])]

\* Two timestamps at most ToleranceDays days apart.
WithinThreeDays(d1, d2) == Abs(d1 - d2) <= ToleranceDays * TicksPerDay

\* The test of find_matches on two timestamps: the whole days of d1 - d2.
DaysTest(d1, d2) == Abs((d1 - d2) \div TicksPerDay) <= ToleranceDays

\* C2: of the occurrences that the report checks for a record, the report
\* leaves out exactly those for which the other list of the record has a
\* date at most 3 days away, and prints the others.
C2_Claim ==
    pc = "done" =>
        \A s \in {1, 2} : \A i \in DOMAIN TableOf(s) :
            LET row == TableOf(s)[i]
            IN  BlockLines(s, row.amount)
                    = LinesFarFrom(Dates1(row), Dates2(row), WithinThreeDays)

\* The statement of C2 for the runs in which no date of the two frames has a
\* time of day.
C2_OnDatesWithoutTime ==
    ( /\ \A i \in DOMAIN df1 : df1[i].date % TicksPerDay = 0
      /\ \A i \in DOMAIN df2 : df2[i].date % TicksPerDay = 0 ) => C2_Claim

\* Ledger A (the bank file) has two rows of amount k and ledger B has one.
TwoAgainstOne(k) == CountIn(df1, k) = 2 /\ CountIn(df2, k) = 1

\* C3 as claimed: with two rows of an amount in A and one in B, the record
\* has the counts 2 and 1 and the report prints at least one of the two A
\* occurrences.
C3_Original ==
    pc = "done" =>
        \A k \in AmountsOf(df1) : TwoAgainstOne(k) =>
            /\ \E i \in RecordsOf(missing_file1, k) :
                  missing_file1[i].count1 = 2 /\ missing_file1[i].count2 = 1
            /\ Len(BlockLines(1, k)) >= 1

\* C3 as amended: with two rows of an amount in A and one in B, the record
\* has the counts 2 and 1, and the report prints exactly the A occurrences
\* for which the test of find_matches against the B date fails, each A
\* occurrence on its own: none when both pass, both when both fail.
C3_Amended ==
    pc = "done" =>
        \A k \in AmountsOf(df1) : TwoAgainstOne(k) =>
            /\ \E i \in RecordsOf(missing_file1, k) :
                  missing_file1[i].count1 = 2 /\ missing_file1[i].count2 = 1
            /\ BlockLines(1, k)
                  = LinesFarFrom(Occurrences(df1, k), Occurrences(df2, k), DaysTest)

\* Two A rows on dates without time of day, 3 days and 1 day from the one B
\* row of the amount: both are explained and the report has no line for it.
C3_Witness ==
    /\ pc = "done"
    /\ \E k \in AmountsOf(df1) :
          /\ TwoAgainstOne(k)
          /\ \A i \in DOMAIN df1 : df1[i].amount = k =>
                /\ df1[i].date % TicksPerDay = 0
                /\ \A j \in DOMAIN df2 : df2[j].amount = k =>
                      /\ df2[j].date % TicksPerDay = 0
                      /\ WithinThreeDays(df1[i].date, df2[j].date)
          /\ \E i \in DOMAIN df1, j \in DOMAIN df2 :
                /\ df1[i].amount = k
                /\ df2[j].amount = k
                /\ Abs(df1[i].date - df2[j].date) = ToleranceDays * TicksPerDay
          /\ BlockLines(1, k) = << >>

\* C4: for every record of both tables, every occurrence of the ledger with
\* the larger count that passes the test of find_matches against no
\* occurrence of the other ledger has its line in the report.
C4_Claim ==
    pc = "done" =>
        /\ \A i \in DOMAIN missing_file1 :
              LET row == missing_file1[i]
              IN  BlockLines(1, row.amount)
                      = LinesFarFrom(row.info1, row.info2, DaysTest)
        /\ \A i \in DOMAIN missing_file2 :
              LET row == missing_file2[i]
              IN  BlockLines(2, row.amount)
                      = LinesFarFrom(row.info2, row.info1, DaysTest)

\* The bank frame exists; the QuickBooks frame exists.
BankLoaded == pc \in {"load_qb", "print_bank", "print_qb", "done"}

\* C6: every date of a frame is without time of day, and the test of
\* find_matches on two dates of the frames gives the same answer both ways.
C6_Claim ==
    BankLoaded =>
        LET dates == {df1[i].date : i \in DOMAIN df1}
                     \cup {df2[i].date : i \in DOMAIN df2}
        IN  /\ \A d \in dates : d % TicksPerDay = 0
            /\ \A x \in dates, y \in dates :
                  FindMatches(x, << << y, "", 1 >> >>)
                      <=> FindMatches(y, << << x, "", 1 >> >>)

\* The exceptions of a configuration that is absent, no YAML, no mapping, or
\* without a ledger section.
ConfigErrors ==
    {"FileNotFoundError", "YAMLError", "TypeError", "KeyError: bank", "KeyError: qb"}

\* C9: a run that a configuration error ends has read no ledger file.
C9_Claim == err \in ConfigErrors => log = << >>

\* The rows of the two files, << 1, i >> for row i of the bank file and
\* << 2, i >> for row i of the QuickBooks file; the canonical amount of a row
\* before the rounding, and its amount in the frame.
LedgerRows ==
    {<< 1, i >> : i \in DOMAIN file1} \cup {<< 2, i >> : i \in DOMAIN file2}

Unrounded(r) ==
    IF r[1] = 1
    THEN StandardizeAmount(file1[r[2]], config.doc["bank"])
    ELSE StandardizeAmount(file2[r[2]], config.doc["qb"])

KeyOf(r) == IF r[1] = 1 THEN df1[r[2]].amount ELSE df2[r[2]].amount

\* For every row, the pair of its canonical amount and its amount in the frame.
AmountPairs == {<< Unrounded(r), KeyOf(r) >> : r \in LedgerRows}

\* Two amounts of the same sign and the same first two decimals, and the
\* third decimal of an amount.
SameButThird(a, b) ==
    /\ (a < 0) = (b < 0)
    /\ Abs(a) \div 10 = Abs(b) \div 10

Third(a) == Abs(a) % 10

\* C8 as claimed: two rows whose amounts differ in the third decimal only
\* have the same amount in the frames that are grouped.
C8_Original ==
    Classified =>
        LET pairs == AmountPairs
        IN  \A p \in pairs, q \in pairs :
                SameButThird(p[1], q[1]) => p[2] = q[2]

\* C8 as amended: every amount that is grouped, and every amount of a record,
\* is the cent value nearest to the canonical amount of its row; two rows
\* whose amounts differ in the third decimal only have the same grouped amount
\* when the two third decimals are both under 5 or both over 5, and grouped
\* amounts one cent apart when one is under 5 and the other over 5.
C8_Amended ==
    Classified =>
        LET pairs == AmountPairs
        IN  /\ \A p \in pairs :
                  /\ p[2] % 10 = 0
                  /\ Abs(p[2] - p[1]) <= 5
            /\ \A k \in AmountsOf(missing_file1) \cup AmountsOf(missing_file2) :
                  \E p \in pairs : p[2] = k
            /\ \A p \in pairs, q \in pairs :
                  SameButThird(p[1], q[1]) =>
                      /\ ( /\ (Third(p[1]) < 5) = (Third(q[1]) < 5)
                           /\ (Third(p[1]) > 5) = (Third(q[1]) > 5) )
                         => p[2] = q[2]
                      /\ (Third(p[1]) < 5 /\ Third(q[1]) > 5)
                         => Abs(q[2]) = Abs(p[2]) + 10

\* A bank row of 10.001 and a QuickBooks row of 10.004 under the same sign
\* rule: one amount in both frames, and no record.
C8_Witness ==
    /\ pc = "done"
    /\ \E i \in DOMAIN file1, j \in DOMAIN file2 :
          /\ file1[i].Amount.v = 10001
          /\ file2[j].Amount.v = 10004
          /\ df1[i].amount = df2[j].amount
    /\ missing_file1 = << >>
    /\ missing_file2 = << >>

\* ------------------------------------------- the calls of _standardize_amount

\* The rows and the sections of the calls: amounts of 50.00 and 10.004 of
\* both signs, and charge and payment cells that are blank or not.
AmountCells == {Cell(-50000), Cell(50000), Cell(10004), Cell(-10004)}

AmountRows ==
    [Amount  : AmountCells,
     Charge  : {Blank, Cell(7000)},
     Payment : {Blank, Cell(2000)}]

AmountConfigs ==
    { SingleAmount("Amount", flag) : flag \in {"absent", "true", "false"} }
    \cup [amount_column        : {""},
          charges_are_negative : {"absent"},
          charge_amount        : {"", "Charge"},
          payment_amount       : {"", "Payment"}]

InitAmount ==
    /\ apc = "call"
    /\ arg_row \in AmountRows
    /\ arg_file_config \in AmountConfigs
    /\ ret_amount = 0
    /\ MainIdle
    /\ MatchIdle

CallStandardizeAmount ==
    /\ apc = "call"
    /\ ret_amount' = StandardizeAmount(arg_row, arg_file_config)
    /\ apc' = "return"
    /\ UNCHANGED << arg_row, arg_file_config, mainVars, matchVars >>

NextAmount == CallStandardizeAmount

SpecAmount == InitAmount /\ [][NextAmount]_vars

\* C7: in the single-amount mode the value returned is the negation of the
\* cell when charges_are_negative is true or not set, and the cell itself
\* when it is false.
C7_SingleAmountSign ==
    (apc = "return" /\ arg_file_config.amount_column /= "") =>
        LET v == arg_row[arg_file_config.amount_column].v
        IN  /\ arg_file_config.charges_are_negative \in {"true", "absent"}
                => ret_amount = -v
            /\ arg_file_config.charges_are_negative = "false"
                => ret_amount = v

\* A cell of -50.00 under a section that does not set the flag returned +50.00.
C7_Witness ==
    /\ apc = "return"
    /\ arg_file_config.amount_column = "Amount"
    /\ arg_file_config.charges_are_negative = "absent"
    /\ arg_row.Amount.v = -50000
    /\ ret_amount = 50000

\* ----------------------------------------------------------- match_transactions

\* Transactions of at most this many to a list.
MaxTxns == 2

\* A transaction: its day, its description as a sequence of characters, and
\* its debit and credit cells in mills (0 for an empty cell).
Txn(day, desc, debit, credit) ==
    [date |-> day, desc |-> desc, debit |-> debit, credit |-> credit]

Txns ==
    { Txn(d, desc, 50000, 0) : d \in {0, 3, 7}, desc \in {<< "a" >>, << "a", "b" >>} }
    \cup { Txn(0, << "c" >>, 50000, 0), Txn(0, << >>, 50009, 0), Txn(0, << "a" >>, 50010, 0) }

\* float(debit or 0) - float(credit or 0)
TxnAmount(t) == t.debit - t.credit

\* s in t, for two strings
IsIn(s, t) ==
    \E i \in 0..(Len(t) - Len(s)) : SubSeq(t, i + 1, i + Len(s)) = s

\* The condition of lines 174 to 176 (0.01 is 10 mills).
TxnsMatch(qb_trans, bank_trans) ==
    /\ Abs(qb_trans.date - bank_trans.date) <= 3
    /\ Abs(TxnAmount(qb_trans) - TxnAmount(bank_trans)) < 10
    /\ (IsIn(bank_trans.desc, qb_trans.desc) \/ IsIn(qb_trans.desc, bank_trans.desc))

\* The bank indices at which the inner loop finds the condition true; the
\* loop breaks at the least of them.
MatchingBanks(qb_trans) ==
    {b \in DOMAIN bank_transactions : TxnsMatch(qb_trans, bank_transactions[b])}

InitMatch ==
    /\ mpc = "qb_loop"
    /\ \E n \in 0..MaxTxns : bank_transactions \in [1..n -> Txns]
    /\ \E n \in 0..MaxTxns : qb_transactions \in [1..n -> Txns]
    /\ qb_idx = 0
    /\ matches = << >>
    /\ mismatches = << >>
    /\ bank_match_counts = [b \in DOMAIN bank_transactions |-> 0]
    /\ MainIdle
    /\ AmountIdle

\* One pass of the loop over the QuickBooks transactions (lines 158 to 200).
\* An entry keeps the positions of its transactions in the two lists (0 for None).
MatchQB ==
    /\ mpc = "qb_loop"
    /\ qb_idx < Len(qb_transactions)
    /\ LET q     == qb_idx + 1
           found == MatchingBanks(qb_transactions[q])
       IN  IF found = {}
           THEN /\ mismatches' = Append(mismatches,
                        [qb |-> q, bank |-> 0,
                         reason |-> "No matching bank transaction found"])
                /\ UNCHANGED << matches, bank_match_counts >>
           ELSE LET b == SetMin(found)
                IN  IF bank_match_counts[b] > 0
                    THEN /\ mismatches' = Append(mismatches,
                                [qb |-> q, bank |-> b,
                                 reason |-> "Duplicate QB transaction"])
                         /\ UNCHANGED << matches, bank_match_counts >>
                    ELSE /\ matches' = Append(matches, [qb |-> q, bank |-> b])
                         /\ bank_match_counts' =
                                [bank_match_counts EXCEPT ![b] = @ + 1]
                         /\ UNCHANGED mismatches
    /\ qb_idx' = qb_idx + 1
    /\ UNCHANGED << mpc, bank_transactions, qb_transactions, mainVars, amountVars >>

\* The bank transactions that the second loop reports, in the order of the list.
RECURSIVE UnmatchedBanks(_)
UnmatchedBanks(b) ==
    IF b > Len(bank_transactions) THEN << >>
    ELSE (IF bank_match_counts[b] = 0
          THEN << [qb |-> 0, bank |-> b,
                   reason |-> "No matching QB transaction found"] >>
          ELSE << >>) \o UnmatchedBanks(b + 1)

\* The loop over the bank transactions (lines 203 to 209), and the return.
ReportUnmatchedBanks ==
    /\ mpc = "qb_loop"
    /\ qb_idx = Len(qb_transactions)
    /\ mismatches' = mismatches \o UnmatchedBanks(1)
    /\ mpc' = "returned"
    /\ UNCHANGED << bank_transactions, qb_transactions, qb_idx, matches,
                    bank_match_counts, mainVars, amountVars >>

NextMatch == MatchQB \/ ReportUnmatchedBanks

SpecMatch == InitMatch /\ [][NextMatch]_vars

\* The entries of a list for QuickBooks transaction q, and for bank transaction b.
EntriesOfQB(entries, q) == {i \in DOMAIN entries : entries[i].qb = q}
EntriesOfBank(entries, b) == {i \in DOMAIN entries : entries[i].bank = b}

\* No bank transaction is in two entries of matches.
C10_BankOnce ==
    \A b \in DOMAIN bank_transactions : Cardinality(EntriesOfBank(matches, b)) <= 1

\* After the loops, every QuickBooks transaction is in one entry of the two lists.
C10_QBOnce ==
    mpc = "returned" =>
        \A q \in DOMAIN qb_transactions :
            Cardinality(EntriesOfQB(matches, q))
                + Cardinality(EntriesOfQB(mismatches, q)) = 1

\* The QuickBooks transaction that the loop has just handled is reported as
\* a duplicate only if no bank transaction without a match meets the
\* condition against it.
C10_DuplicateOnlyIfNoFreeBank ==
    (mpc = "qb_loop" /\ qb_idx >= 1) =>
        \A i \in EntriesOfQB(mismatches, qb_idx) :
            mismatches[i].reason = "Duplicate QB transaction" =>
                \A b \in DOMAIN bank_transactions :
                    bank_match_counts[b] = 0 =>
                        ~TxnsMatch(qb_transactions[qb_idx], bank_transactions[b])

\* C10: match_transactions pairs one to one: no bank transaction is in two
\* entries of matches, every QuickBooks transaction is in one entry of
\* matches or mismatches, and a QuickBooks transaction is a duplicate only if
\* no bank transaction that is still without a match meets the condition.
C10_Claim == C10_BankOnce /\ C10_QBOnce /\ C10_DuplicateOnlyIfNoFreeBank

====
